---- MODULE Spec2Model ----
(***************************************************************************)
(* Model of lazy-sorted-array's SortedArray (sorted-array.ts).             *)
(*                                                                         *)
(* Payloads are object identities.  The payload comparator is the one     *)
(* used throughout the README and the test-suite, (a, b) => a[0] - b[0];   *)
(* a0(o) is the a[0] of object o.  Objects 1..NObj are the ones that get   *)
(* stored; 1 and 2 are distinct instances with the same a[0], so           *)
(* comparator-equality and reference identity differ.  Objects -1..-NObj   *)
(* are fresh lookup keys (like the [0, 0] of findNearest([0, 0])): never   *)
(* stored, with an a[0] below, between and above the stored ones.          *)
(* Code indices are 0-based; At(s, i) reads s[i].  An optional value is    *)
(* <<>> (undefined) or <<v>>.                                              *)
(*                                                                         *)
(* mutated is the set of stored objects whose a[0] has been overwritten by   *)
(* the caller since they were created (the collection cannot see this).    *)
(*                                                                         *)
(* iterator is the generator object handed out by [Symbol.iterator]() that  *)
(* the caller is stepping, if any: <<>> or <<[index, yielded]>>, index the  *)
(* position its loop reads next, yielded (history) the payloads it has     *)
(* yielded so far.                                                         *)
(*                                                                         *)
(* A node is [obj, index, ins]: obj and index are the SANode fields; ins   *)
(* is a history field (not read by any operation): the rank of the node's  *)
(* insertion among the nodes currently stored.                             *)
(***************************************************************************)
EXTENDS Integers, Sequences, FiniteSets, TLC

VARIABLES array, sorted, sorting, insertionCounter, mutated, iterator, ret

vars == <<array, sorted, sorting, insertionCounter, mutated, iterator, ret>>

\* ---- bounds ----
MaxLen == 3
NObj == 3

\* ---- program constants (Number.MIN/MAX_SAFE_INTEGER, scaled) ----
MIN_SAFE_INTEGER == -3
MAX_SAFE_INTEGER == 3

Objs == 1..NObj

Probes == {-k : k \in 1..NObj}

\* the collection itself, stored in itself as a payload (sa.add(sa))
Self == 9

\* the payload null (sa.add(null)): reading null[0] throws a TypeError, so
\* the Payload Comparator throws on every comparison that has it as an operand
Null == 8

\* a lookup key whose a[0] is NaN, like [NaN, 0]: never stored
NaNKey == 0

\* the a[0] an object is created with; the payloads [a0, a1] of the README's
\* example are the objects 10 * a0 + a1, and the array literal [a0, a1] written
\* as the key of a lookup there is the object 100 + 10 * a0 + a1
created0(o) ==
  IF o >= 100 THEN (o - 100) \div 10
  ELSE IF o >= 10 THEN o \div 10
  ELSE IF o < 0 THEN -2 * o - 1
  ELSE IF o <= 2 THEN 2
  ELSE 2 * (o - 1)

\* the current a[0] of an object; the caller's overwrite is o[0] = 6 - o[0]
a0(o) == IF o \in mutated THEN 6 - created0(o) ELSE created0(o)

At(s, i) == s[i + 1]

Front(s) == SubSeq(s, 1, Len(s) - 1)

Last(s) == s[Len(s)]

SeqsUpTo(S, n) == UNION {[1..k -> S] : k \in 0..n}

\* ---- comparators ----
originalCompareFn(a, b) == a0(a) - a0(b)

\* a[0] - b[0] is NaN: one of the operands is NaN
compareIsNaN(a, b) == a = NaNKey \/ b = NaNKey

\* (variant: the tie-break operands swapped)
compareFn_swapped(a, b) ==
  LET compare == originalCompareFn(a.obj, b.obj)
  IN IF compare = 0 THEN b.index - a.index ELSE compare

compareFn(a, b) ==
  LET compare == originalCompareFn(a.obj, b.obj)
  IN IF compare = 0 THEN a.index - b.index ELSE compare

\* ---- Array.prototype.sort with a comparator (stable) ----
\* the comparators handed to Array.prototype.sort, by name
compareWith(name, a, b) ==
  CASE name = "compareFn" -> compareFn(a, b)
    [] name = "byIndex" -> a.index - b.index
    [] name = "numericAscending" -> a - b

RECURSIVE insertInto(_, _, _)
insertInto(name, s, x) ==
  IF s = <<>> THEN <<x>>
  ELSE IF compareWith(name, Last(s), x) <= 0 THEN Append(s, x)
  ELSE Append(insertInto(name, Front(s), x), Last(s))

RECURSIVE sortWith(_, _)
sortWith(name, s) ==
  IF s = <<>> THEN <<>>
  ELSE insertInto(name, sortWith(name, Front(s)), Last(s))

arraySort(s) == sortWith("compareFn", s)

\* ---- _sort: returns the storage and flags after the call ----
\* (variant: only marks the storage sorted)
_sort_flagOnly(arr, isSorted, isSorting) ==
  [array |-> arr, sorted |-> TRUE, sorting |-> isSorting]

\* (variant: sorts whether the storage is marked sorted or not)
_sort_always(arr, isSorted, isSorting) ==
  [array |-> IF ~isSorting THEN arraySort(arr) ELSE arr,
   sorted |-> TRUE,
   sorting |-> isSorting]

_sort(arr, isSorted, isSorting) ==
  [array |-> IF ~isSorted /\ ~isSorting THEN arraySort(arr) ELSE arr,
   sorted |-> TRUE,
   sorting |-> IF ~isSorted /\ ~isSorting THEN FALSE ELSE isSorting]

unwrap(items) == [i \in DOMAIN items |-> items[i].obj]

\* ---- insertion sequencer ----
\* (variant: resets the counter, leaves the nodes' indices alone)
reduceInsertionOrders_resetOnly(arr) ==
  [array |-> arr, insertionCounter |-> MIN_SAFE_INTEGER]

\* (variant: numbers the nodes in the order of their storage positions)
reduceInsertionOrders_byPosition(arr) ==
  [array |-> [i \in DOMAIN arr |-> [arr[i] EXCEPT !.index = MIN_SAFE_INTEGER + i - 1]],
   insertionCounter |-> MIN_SAFE_INTEGER + Len(arr)]

\* copy is the clone of the storage sorted by index; it shares its nodes with
\* the storage, so each of its entries carries the position pos of its node
reduceInsertionOrders(arr) ==
  LET copy == sortWith("byIndex",
                       [i \in DOMAIN arr |-> [index |-> arr[i].index, pos |-> i]])
      place(i) == CHOOSE k \in DOMAIN copy : copy[k].pos = i
  IN [array |-> [i \in DOMAIN arr |->
                   [arr[i] EXCEPT !.index = MIN_SAFE_INTEGER + place(i) - 1]],
      insertionCounter |-> MIN_SAFE_INTEGER + Len(arr)]

\* (variant: keeps the index read before the renumbering)
wrapOne_noReassign(arr, ctr, obj) ==
  IF ctr + 1 >= MAX_SAFE_INTEGER
  THEN LET r == reduceInsertionOrders(arr)
       IN [array |-> r.array,
           node |-> [obj |-> obj, index |-> ctr, ins |-> Len(arr) + 1],
           insertionCounter |-> r.insertionCounter,
           reduced |-> TRUE]
  ELSE [array |-> arr,
        node |-> [obj |-> obj, index |-> ctr, ins |-> Len(arr) + 1],
        insertionCounter |-> ctr + 1,
        reduced |-> FALSE]

\* (variant: renumbers only once the counter is past the threshold)
wrapOne_lateThreshold(arr, ctr, obj) ==
  IF ctr + 1 > MAX_SAFE_INTEGER
  THEN LET r == reduceInsertionOrders(arr)
       IN [array |-> r.array,
           node |-> [obj |-> obj, index |-> r.insertionCounter, ins |-> Len(arr) + 1],
           insertionCounter |-> r.insertionCounter + 1,
           reduced |-> TRUE]
  ELSE [array |-> arr,
        node |-> [obj |-> obj, index |-> ctr, ins |-> Len(arr) + 1],
        insertionCounter |-> ctr + 1,
        reduced |-> FALSE]

\* wrapOne(obj) without emulation, on storage arr and counter ctr
wrapOne(arr, ctr, obj) ==
  IF ctr + 1 >= MAX_SAFE_INTEGER
  THEN LET r == reduceInsertionOrders(arr)
       IN [array |-> r.array,
           node |-> [obj |-> obj, index |-> r.insertionCounter, ins |-> Len(arr) + 1],
           insertionCounter |-> r.insertionCounter + 1,
           reduced |-> TRUE]
  ELSE [array |-> arr,
        node |-> [obj |-> obj, index |-> ctr, ins |-> Len(arr) + 1],
        insertionCounter |-> ctr + 1,
        reduced |-> FALSE]

\* the loop of addAll: push(wrapOne(item)) for each item
\* (the set binds w to the value of wrapOne, CHOOSE takes the one result)
RECURSIVE pushAll(_, _, _, _)
pushAll(arr, ctr, items, reduced) ==
  IF items = <<>> THEN [array |-> arr, insertionCounter |-> ctr, reduced |-> reduced]
  ELSE CHOOSE result \in {pushAll(Append(w.array, w.node), w.insertionCounter,
                                  Tail(items), reduced \/ w.reduced) :
                            w \in {wrapOne(arr, ctr, Head(items))}} : TRUE

\* history: ranks of insertion renumbered 1..n after a removal
renorm(arr) ==
  [i \in DOMAIN arr |->
     [arr[i] EXCEPT !.ins = 1 + Cardinality({j \in DOMAIN arr : arr[j].ins < arr[i].ins})]]

\* ---- constructor ----
Init ==
  \E elements \in SeqsUpTo(Objs, 2) :
    LET w == pushAll(<<>>, MIN_SAFE_INTEGER, elements, FALSE)
    IN /\ array = w.array
       /\ insertionCounter = w.insertionCounter
       /\ sorted = FALSE
       /\ sorting = FALSE
       /\ mutated = {}
       /\ iterator = <<>>
       /\ ret = [op |-> "new"]

\* ---- public methods ----
\* (\E x \in {e} binds x to the value of e)
\* addAll(items); add(...items) is addAll(items)
addAllBody(items) ==
  /\ \E w \in {pushAll(array, insertionCounter, items, FALSE)} :
        /\ array' = w.array
        /\ insertionCounter' = w.insertionCounter
        /\ sorted' = FALSE
        /\ ret' = [op |-> "add", reduced |-> w.reduced, value |-> Len(w.array)]
  /\ UNCHANGED <<sorting, mutated, iterator>>

\* addAll(items) on a collection that stays within MaxLen elements
addAllCall(items) ==
  /\ Len(array) + Len(items) <= MaxLen
  /\ addAllBody(items)

\* the number of values the insertion counter ranges over before the
\* threshold
CounterWidth == MAX_SAFE_INTEGER - MIN_SAFE_INTEGER

\* add(item) on a collection that stays below CounterWidth elements
AddBelowWidth ==
  /\ Len(array) + 1 < CounterWidth
  /\ \E item \in Objs : addAllBody(<<item>>)

\* add(item)
Add == \E item \in Objs : addAllCall(<<item>>)

\* addAll([]) and addAll([a, b])
AddAll == \E items \in {<<>>} \cup [1..2 -> Objs] : addAllCall(items)

ToArray ==
  \E s \in {_sort(array, sorted, sorting)} :
     /\ array' = s.array
     /\ sorted' = s.sorted
     /\ sorting' = s.sorting
     /\ ret' = [op |-> "toArray", value |-> unwrap(s.array)]
     /\ UNCHANGED <<insertionCounter, mutated, iterator>>

\* (variant: the upper bound test is index > length)
Get_offByOne ==
  \E index \in -1..MaxLen :
    IF index < 0 \/ index > Len(array)
    THEN /\ ret' = [op |-> "get", index |-> index, status |-> "RangeError", value |-> <<>>]
         /\ UNCHANGED <<array, sorted, sorting, insertionCounter, mutated, iterator>>
    ELSE \E s \in {_sort(array, sorted, sorting)} :
            /\ array' = s.array
            /\ sorted' = s.sorted
            /\ sorting' = s.sorting
            /\ ret' = IF index = Len(array)
                      THEN [op |-> "get", index |-> index, status |-> "TypeError",
                            value |-> <<>>]
                      ELSE [op |-> "get", index |-> index, status |-> "ok",
                            value |-> <<At(s.array, index).obj>>]
            /\ UNCHANGED <<insertionCounter, mutated, iterator>>

Get ==
  \E index \in -1..MaxLen :
    IF index < 0 \/ index >= Len(array)
    THEN /\ ret' = [op |-> "get", index |-> index, status |-> "RangeError", value |-> <<>>]
         /\ UNCHANGED <<array, sorted, sorting, insertionCounter, mutated, iterator>>
    ELSE \E s \in {_sort(array, sorted, sorting)} :
            /\ array' = s.array
            /\ sorted' = s.sorted
            /\ sorting' = s.sorting
            /\ ret' = [op |-> "get", index |-> index, status |-> "ok",
                       value |-> <<At(s.array, index).obj>>]
            /\ UNCHANGED <<insertionCounter, mutated, iterator>>

\* (variant: sort() relies on the dirty flag)
Sort_ifDirty ==
  \E s \in {_sort(array, sorted, sorting)} :
     /\ array' = s.array
     /\ sorted' = s.sorted
     /\ sorting' = s.sorting
     /\ ret' = [op |-> "sort", compareFn |-> FALSE, status |-> "ok"]
     /\ UNCHANGED <<insertionCounter, mutated, iterator>>

Sort ==
  \E s \in {_sort(array, FALSE, sorting)} :
     /\ array' = s.array
     /\ sorted' = s.sorted
     /\ sorting' = s.sorting
     /\ ret' = [op |-> "sort", compareFn |-> FALSE, status |-> "ok"]
     /\ UNCHANGED <<insertionCounter, mutated, iterator>>

\* sort(compareFn) with a compare function
SortCompareFn ==
  /\ ret' = [op |-> "sort", compareFn |-> TRUE, status |-> "Error"]
  /\ UNCHANGED <<array, sorted, sorting, insertionCounter, mutated, iterator>>

\* push, concat, reverse, unshift, fill, copyWithin: throw this.uo(operation)
uo(operation) == [op |-> operation, status |-> "Error"]

Unsupported ==
  \E operation \in {"push", "concat", "reverse", "unshift", "fill", "copyWithin"} :
    /\ ret' = uo(operation)
    /\ UNCHANGED <<array, sorted, sorting, insertionCounter, mutated, iterator>>

\* ---- the proxy handler's set trap ----
\* sa[index] = value
SetIndex ==
  \E index \in -1..MaxLen :
    /\ ret' = [op |-> "set", index |-> index, status |-> "Error"]
    /\ UNCHANGED <<array, sorted, sorting, insertionCounter, mutated, iterator>>

\* sa.length = newLength, newLength an integer
SetLength ==
  \E newLength \in -1..(MaxLen + 1) :
    IF newLength < 0 \/ newLength > Len(array)
    THEN /\ ret' = [op |-> "setLength", newLength |-> newLength, status |-> "RangeError"]
         /\ UNCHANGED <<array, sorted, sorting, insertionCounter, mutated, iterator>>
    ELSE /\ array' = renorm(SubSeq(array, 1, newLength))
         /\ ret' = [op |-> "setLength", newLength |-> newLength, status |-> "ok"]
         /\ UNCHANGED <<sorted, sorting, insertionCounter, mutated, iterator>>

\* ---- toString, with a comparator that stringifies its operands ----
\* sa.add(sa)
AddSelf == addAllCall(<<Self>>)

\* what toString makes of the unwrapped storage before it joins it
Circular(unwrapped) ==
  [i \in DOMAIN unwrapped |->
     IF unwrapped[i] = Self THEN [tag |-> "[Circular]", obj |-> Self]
     ELSE [tag |-> "element", obj |-> unwrapped[i]]]

\* (variant: a nested _sort goes by the sorted flag alone)
ToStringNested_noGuard ==
  /\ sorting
  /\ Len(array) >= 2
  /\ \E i \in DOMAIN array : array[i].obj = Self
  /\ \E s \in {_sort(array, sorted, FALSE)} :
        /\ array' = s.array
        /\ sorted' = s.sorted
        /\ sorting' = s.sorting
        /\ ret' = [op |-> "toString", nested |-> TRUE, done |-> TRUE,
                   value |-> Circular(unwrap(s.array))]
  /\ UNCHANGED <<insertionCounter, mutated, iterator>>

\* toString() up to the point where its _sort has called array.sort: on a
\* dirty collection sorting is set and the pass is under way, otherwise the
\* call runs to its end
ToStringBegin ==
  /\ ~sorting
  /\ IF ~sorted
     THEN /\ sorting' = TRUE
          /\ ret' = [op |-> "toString", nested |-> FALSE, done |-> FALSE, value |-> <<>>]
          /\ UNCHANGED <<array, sorted>>
     ELSE /\ ret' = [op |-> "toString", nested |-> FALSE, done |-> TRUE,
                     value |-> Circular(unwrap(array))]
          /\ UNCHANGED <<array, sorted, sorting>>
  /\ UNCHANGED <<insertionCounter, mutated, iterator>>

\* during the pass the comparator stringifies an operand that is the
\* collection itself: a whole call of toString() inside the pass (the
\* storage is still as the pass found it)
ToStringNested ==
  /\ sorting
  /\ Len(array) >= 2
  /\ \E i \in DOMAIN array : array[i].obj = Self
  /\ \E s \in {_sort(array, sorted, sorting)} :
        /\ array' = s.array
        /\ sorted' = s.sorted
        /\ sorting' = s.sorting
        /\ ret' = [op |-> "toString", nested |-> TRUE, done |-> TRUE,
                   value |-> Circular(unwrap(s.array))]
  /\ UNCHANGED <<insertionCounter, mutated, iterator>>

\* array.sort returns: the rest of _sort and of the outer toString()
ToStringEnd ==
  /\ sorting
  /\ array' = arraySort(array)
  /\ sorting' = FALSE
  /\ sorted' = TRUE
  /\ ret' = [op |-> "toString", nested |-> FALSE, done |-> TRUE,
             value |-> Circular(unwrap(arraySort(array)))]
  /\ UNCHANGED <<insertionCounter, mutated, iterator>>

\* ---- the caller overwrites the a[0] of an object it holds ----
Mutate ==
  \E o \in Objs \ mutated :
    /\ mutated' = mutated \cup {o}
    /\ ret' = [op |-> "mutate", obj |-> o]
    /\ UNCHANGED <<array, sorted, sorting, insertionCounter, iterator>>

\* the caller overwrites the a[0] of object 1
MutateFirst ==
  /\ 1 \notin mutated
  /\ mutated' = mutated \cup {1}
  /\ ret' = [op |-> "mutate", obj |-> 1]
  /\ UNCHANGED <<array, sorted, sorting, insertionCounter, iterator>>

\* ---- iteration ----
\* [Symbol.iterator]() and values(): _sort, then a generator over this.array
\* whose body has not started yet
SymbolIterator ==
  \E s \in {_sort(array, sorted, sorting)} :
     /\ array' = s.array
     /\ sorted' = s.sorted
     /\ sorting' = s.sorting
     /\ iterator' = <<[index |-> 0, yielded |-> <<>>]>>
     /\ ret' = [op |-> "Symbol.iterator"]
     /\ UNCHANGED <<insertionCounter, mutated>>

\* next() on the generator: for (const item of this.array) { yield item.obj; }
\* reads this.array at its position, as long as that is below the length
IteratorNext ==
  /\ iterator # <<>>
  /\ IF iterator[1].index < Len(array)
     THEN \E value \in {At(array, iterator[1].index).obj} :
            /\ iterator' = <<[index |-> iterator[1].index + 1,
                              yielded |-> Append(iterator[1].yielded, value)]>>
            /\ ret' = [op |-> "next", done |-> FALSE, value |-> <<value>>]
     ELSE /\ iterator' = <<>>
          /\ ret' = [op |-> "next", done |-> TRUE, value |-> <<>>]
  /\ UNCHANGED <<array, sorted, sorting, insertionCounter, mutated>>

\* ---- reduce, reduceRight ----
\* accumulator values: undefined, the initial value the caller supplies, and
\* what the callback returns
Undefined == [tag |-> "undefined", obj |-> 0]

InitialValue == [tag |-> "initialValue", obj |-> 0]

\* the callback of the calls modelled, (previousValue, currentValue) => currentValue
callbackfn(previousValue, currentValue, currentIndex) ==
  [tag |-> "element", obj |-> currentValue]

\* the loops of reduce (step 1, up to the length) and reduceRight (step -1,
\* down to 0) from position i; calls lists the callback's arguments
RECURSIVE reduceLoop(_, _, _, _, _)
reduceLoop(arr, i, step, value, calls) ==
  IF i < 0 \/ i >= Len(arr) THEN [value |-> value, calls |-> calls]
  ELSE reduceLoop(arr, i + step, step,
                  callbackfn(value, At(arr, i).obj, i),
                  Append(calls, [previousValue |-> value,
                                 currentValue |-> At(arr, i).obj,
                                 currentIndex |-> i]))

\* reduce(callbackfn, initialValue) and reduceRight(callbackfn, initialValue);
\* initialValue is <<>> when the argument is omitted
reduceCall(method) ==
  \E initialValue \in {<<>>, <<InitialValue>>} :
    \E s \in {_sort(array, sorted, sorting)} :
      \E r \in {reduceLoop(s.array,
                            IF method = "reduce" THEN 0 ELSE Len(s.array) - 1,
                            IF method = "reduce" THEN 1 ELSE -1,
                            IF initialValue = <<>> THEN Undefined ELSE initialValue[1],
                            <<>>)} :
         /\ array' = s.array
         /\ sorted' = s.sorted
         /\ sorting' = s.sorting
         /\ ret' = [op |-> method, initialValue |-> initialValue, status |-> "ok",
                    value |-> r.value, calls |-> r.calls]
         /\ UNCHANGED <<insertionCounter, mutated, iterator>>

Reduce == reduceCall("reduce")

ReduceRight == reduceCall("reduceRight")

\* ---- removal ----
\* Array.prototype.splice(index, 1) on an in-range index
removeAt(arr, index) ==
  [i \in 1..(Len(arr) - 1) |-> IF i <= index THEN arr[i] ELSE arr[i + 1]]

\* the loop of removeAll over the sorted indices, from loop counter i
\* (variant: no correction for the elements already removed)
RECURSIVE removeLoop_noShift(_, _, _, _)
removeLoop_noShift(arr, indices, i, acc) ==
  IF i >= Len(indices) THEN [array |-> arr, status |-> "ok", value |-> acc]
  ELSE LET index == At(indices, i)
       IN IF index < 0 \/ index >= Len(arr)
          THEN [array |-> arr, status |-> "RangeError", value |-> <<>>]
          ELSE removeLoop_noShift(removeAt(arr, index), indices, i + 1,
                                  Append(acc, At(arr, index).obj))

RECURSIVE removeLoop(_, _, _, _)
removeLoop(arr, indices, i, acc) ==
  IF i >= Len(indices) THEN [array |-> arr, status |-> "ok", value |-> acc]
  ELSE LET index == At(indices, i) - i
       IN IF index < 0 \/ index >= Len(arr)
          THEN [array |-> arr, status |-> "RangeError", value |-> <<>>]
          ELSE removeLoop(removeAt(arr, index), indices, i + 1,
                          Append(acc, At(arr, index).obj))

\* (variant: the indices are not sorted first)
removeAll_unsortedIndices(arr, indices) ==
  removeLoop(arr, indices, 0, <<>>)

removeAll(arr, indices) ==
  removeLoop(arr, sortWith("numericAscending", indices), 0, <<>>)

\* removeAll(indices); remove(...indices) is removeAll(indices)
removeAllCall(indices) ==
  \E s \in {_sort(array, sorted, sorting)} :
    \E r \in {removeAll(s.array, indices)} :
       /\ array' = renorm(r.array)
       /\ sorted' = s.sorted
       /\ sorting' = s.sorting
       /\ ret' = [op |-> "removeAll", indices |-> indices, status |-> r.status,
                  value |-> r.value]
       /\ UNCHANGED <<insertionCounter, mutated, iterator>>

\* remove(index)
Remove == \E index \in -1..MaxLen : removeAllCall(<<index>>)

\* removeAll of no, one and two indices, in any order
RemoveAll == \E indices \in SeqsUpTo(-1..MaxLen, 2) : removeAllCall(indices)

Pop ==
  \E s \in {_sort(array, sorted, sorting)} :
     /\ sorted' = s.sorted
     /\ sorting' = s.sorting
     /\ IF s.array = <<>>
        THEN /\ array' = s.array
             /\ ret' = [op |-> "pop", status |-> "TypeError", value |-> <<>>]
        ELSE /\ array' = renorm(Front(s.array))
             /\ ret' = [op |-> "pop", status |-> "ok", value |-> <<Last(s.array).obj>>]
     /\ UNCHANGED <<insertionCounter, mutated, iterator>>

Shift ==
  \E s \in {_sort(array, sorted, sorting)} :
     /\ sorted' = s.sorted
     /\ sorting' = s.sorting
     /\ IF s.array = <<>>
        THEN /\ array' = s.array
             /\ ret' = [op |-> "shift", status |-> "TypeError", value |-> <<>>]
        ELSE /\ array' = renorm(Tail(s.array))
             /\ ret' = [op |-> "shift", status |-> "ok", value |-> <<Head(s.array).obj>>]
     /\ UNCHANGED <<insertionCounter, mutated, iterator>>

\* ---- calls on a collection whose comparator may throw ----
\* array.sort(compareFn) compares every element of a storage of two or more
\* with another one, so it throws iff null is among them
sortThrows(arr) == Len(arr) >= 2 /\ \E i \in DOMAIN arr : arr[i].obj = Null

\* _sort with the exception: when array.sort throws, the assignments after
\* it are not reached (array.sort writes nothing back when it throws)
_sortOrThrow(arr, isSorted, isSorting) ==
  IF ~isSorted /\ ~isSorting /\ sortThrows(arr)
  THEN [array |-> arr, sorted |-> isSorted, sorting |-> TRUE, thrown |-> TRUE]
  ELSE _sort(arr, isSorted, isSorting) @@ [thrown |-> FALSE]

\* sa.add(null)
AddNull == addAllCall(<<Null>>)

\* toArray()
ToArrayOrThrow ==
  \E s \in {_sortOrThrow(array, sorted, sorting)} :
     /\ array' = s.array
     /\ sorted' = s.sorted
     /\ sorting' = s.sorting
     /\ ret' = IF s.thrown THEN [op |-> "toArray", status |-> "TypeError", value |-> <<>>]
               ELSE [op |-> "toArray", status |-> "ok", value |-> unwrap(s.array)]
     /\ UNCHANGED <<insertionCounter, mutated, iterator>>

\* remove(index)
RemoveOrThrow ==
  \E index \in 0..(Len(array) - 1) :
    \E s \in {_sortOrThrow(array, sorted, sorting)} :
      \E r \in {removeAll(s.array, <<index>>)} :
         /\ array' = IF s.thrown THEN s.array ELSE renorm(r.array)
         /\ sorted' = s.sorted
         /\ sorting' = s.sorting
         /\ ret' = IF s.thrown
                   THEN [op |-> "removeAll", indices |-> <<index>>,
                         status |-> "TypeError", value |-> <<>>]
                   ELSE [op |-> "removeAll", indices |-> <<index>>,
                         status |-> r.status, value |-> r.value]
         /\ UNCHANGED <<insertionCounter, mutated, iterator>>

Min(a, b) == IF a < b THEN a ELSE b

Max(a, b) == IF a > b THEN a ELSE b

\* Array.prototype.splice(start, deleteCount) called with two arguments;
\* deleteCount is <<>> for undefined (ToInteger(undefined) = 0) or <<k>>
\* (variant: a negative start is taken for 0)
nativeSplice_negativeIsZero(arr, start, deleteCount) ==
  LET len == Len(arr)
      actualStart == IF start < 0 THEN 0 ELSE Min(start, len)
      dc == IF deleteCount = <<>> THEN 0 ELSE deleteCount[1]
      actualDeleteCount == Min(Max(dc, 0), len - actualStart)
  IN [removed |-> SubSeq(arr, actualStart + 1, actualStart + actualDeleteCount),
      array |-> SubSeq(arr, 1, actualStart)
                  \o SubSeq(arr, actualStart + actualDeleteCount + 1, len)]

nativeSplice(arr, start, deleteCount) ==
  LET len == Len(arr)
      actualStart == IF start < 0 THEN Max(len + start, 0) ELSE Min(start, len)
      dc == IF deleteCount = <<>> THEN 0 ELSE deleteCount[1]
      actualDeleteCount == Min(Max(dc, 0), len - actualStart)
  IN [removed |-> SubSeq(arr, actualStart + 1, actualStart + actualDeleteCount),
      array |-> SubSeq(arr, 1, actualStart)
                  \o SubSeq(arr, actualStart + actualDeleteCount + 1, len)]

\* splice(start, deleteCount) for start and deleteCount drawn from starts, counts
spliceCall(starts, counts) ==
  \E start \in starts, deleteCount \in counts :
    \E s \in {_sort(array, sorted, sorting)} :
      \E r \in {nativeSplice(s.array, start, deleteCount)} :
         /\ array' = renorm(r.array)
         /\ sorted' = s.sorted
         /\ sorting' = s.sorting
         /\ ret' = [op |-> "splice", start |-> start, deleteCount |-> deleteCount,
                    items |-> <<>>, status |-> "ok", value |-> unwrap(r.removed)]
         /\ UNCHANGED <<insertionCounter, mutated, iterator>>

Splice == spliceCall({-1, 0, 1}, {<<>>, <<1>>, <<2>>})

\* the positions a start or end argument is taken from, for a collection of
\* len elements: before the front and the last element, counted from the
\* back; the first two elements and the end, counted from the front
Around(len) == {-(len + 1), -1, 0, 1, len}

\* splice(start, deleteCount) with an integer deleteCount: negative, zero, one
\* and the length
SpliceAround ==
  spliceCall(Around(Len(array)), {<<k>> : k \in {-1, 0, 1, Len(array)}})

\* Array.prototype.slice(start, end) with two integer arguments
nativeSlice(arr, start, end) ==
  LET len == Len(arr)
      k == IF start < 0 THEN Max(len + start, 0) ELSE Min(start, len)
      final == IF end < 0 THEN Max(len + end, 0) ELSE Min(end, len)
  IN SubSeq(arr, k + 1, final)

\* slice(start, end)
Slice ==
  \E start, end \in Around(Len(array)) :
    \E s \in {_sort(array, sorted, sorting)} :
       /\ array' = s.array
       /\ sorted' = s.sorted
       /\ sorting' = s.sorting
       /\ ret' = [op |-> "slice", start |-> start, end |-> end,
                  value |-> unwrap(nativeSlice(s.array, start, end))]
       /\ UNCHANGED <<insertionCounter, mutated, iterator>>

\* splice(start, deleteCount, item)
\* (variant: sorts before it looks at the replacement items)
SpliceItems_sortFirst ==
  \E start \in {0, 1}, item \in Objs :
    \E s \in {_sort(array, sorted, sorting)} :
       /\ array' = s.array
       /\ sorted' = s.sorted
       /\ sorting' = s.sorting
       /\ ret' = [op |-> "splice", start |-> start, deleteCount |-> <<1>>,
                  items |-> <<item>>, status |-> "Error", value |-> <<>>]
       /\ UNCHANGED <<insertionCounter, mutated, iterator>>

SpliceItems ==
  \E start \in {0, 1}, item \in Objs :
    /\ ret' = [op |-> "splice", start |-> start, deleteCount |-> <<1>>,
               items |-> <<item>>, status |-> "Error", value |-> <<>>]
    /\ UNCHANGED <<array, sorted, sorting, insertionCounter, mutated, iterator>>

\* ---- search family ----
\* A search bound is optional, <<>> (undefined) or <<x>>, x a number:
\* Integer(i) is the integer i, Fraction(i) is i + 0.5, NaN is NaN
Integer(i) == [kind |-> "integer", n |-> i]

Fraction(i) == [kind |-> "fraction", n |-> i]

NaN == [kind |-> "NaN", n |-> 0]

\* st is [array, sorted, sorting, insertionCounter]; min and max are bounds
wrapOneEmulated(ctr, obj) == [obj |-> obj, index |-> ctr]

\* (variant: the next probe is the midpoint rounded up)
RECURSIVE searchLoop_roundUp(_, _, _, _, _)
searchLoop_roundUp(arr, obj, min, max, cur) ==
  IF max >= min
  THEN IF cur < 0 \/ cur >= Len(arr)
       THEN [status |-> "TypeError", index |-> cur, found |-> FALSE, compares |-> 0]
       ELSE LET compare == originalCompareFn(obj, At(arr, cur).obj)
                next == IF compare < 0
                        THEN searchLoop_roundUp(arr, obj, min, cur - 1, (min + cur) \div 2)
                        ELSE searchLoop_roundUp(arr, obj, cur + 1, max, (cur + 2 + max) \div 2)
            IN IF compare = 0
               THEN [status |-> "ok", index |-> cur, found |-> TRUE, compares |-> 1]
               ELSE [next EXCEPT !.compares = @ + 1]
  ELSE [status |-> "ok", index |-> cur, found |-> FALSE, compares |-> 0]

\* the loop of search; compares counts the calls of originalCompareFn
RECURSIVE searchLoop(_, _, _, _, _)
searchLoop(arr, obj, min, max, cur) ==
  IF max >= min
  THEN IF cur < 0 \/ cur >= Len(arr)
       THEN [status |-> "TypeError", index |-> cur, found |-> FALSE, compares |-> 0]
       ELSE IF compareIsNaN(obj, At(arr, cur).obj)
       THEN [status |-> "Error", index |-> cur, found |-> FALSE, compares |-> 1]
       ELSE LET compare == originalCompareFn(obj, At(arr, cur).obj)
                next == IF compare < 0
                        THEN searchLoop(arr, obj, min, cur - 1, (min + cur - 1) \div 2)
                        ELSE searchLoop(arr, obj, cur + 1, max, (cur + 1 + max) \div 2)
            IN IF compare = 0
               THEN [status |-> "ok", index |-> cur, found |-> TRUE, compares |-> 1]
               ELSE [next EXCEPT !.compares = @ + 1]
  ELSE [status |-> "ok", index |-> cur, found |-> FALSE, compares |-> 0]

\* (variant: searches the storage as it is, without the _sort call)
search_unsorted(st, obj, min, max) ==
  LET len == Len(st.array)
      unchanged == [array |-> st.array, sorted |-> st.sorted, sorting |-> st.sorting]
      thrown == [status |-> "Error", index |-> 0, found |-> FALSE, compares |-> 0]
  IN IF min # <<>> /\ (min[1].kind # "integer" \/ min[1].n < 0)
     THEN unchanged @@ thrown
     ELSE IF max # <<>> /\ (max[1].kind # "integer" \/ max[1].n < 0 \/ max[1].n > len)
     THEN unchanged @@ thrown
     ELSE IF len = 0
     THEN unchanged @@ [status |-> "ok", index |-> 0, found |-> FALSE, compares |-> 0]
     ELSE LET lo == IF min = <<>> THEN 0 ELSE min[1].n
              hi == IF max = <<>> THEN len - 1 ELSE max[1].n
          IN unchanged @@ searchLoop(st.array, obj, lo, hi, hi \div 2)

search(st, obj, min, max) ==
  LET len == Len(st.array)
      unchanged == [array |-> st.array, sorted |-> st.sorted, sorting |-> st.sorting]
      thrown == [status |-> "Error", index |-> 0, found |-> FALSE, compares |-> 0]
  IN IF min # <<>> /\ (min[1].kind # "integer" \/ min[1].n < 0)
     THEN unchanged @@ thrown
     ELSE IF max # <<>> /\ (max[1].kind # "integer" \/ max[1].n < 0 \/ max[1].n > len)
     THEN unchanged @@ thrown
     ELSE IF len = 0
     THEN unchanged @@ [status |-> "ok", index |-> 0, found |-> FALSE, compares |-> 0]
     ELSE LET lo == IF min = <<>> THEN 0 ELSE min[1].n
              hi == IF max = <<>> THEN len - 1 ELSE max[1].n
              s == _sort(st.array, st.sorted, st.sorting)
              searchObj == wrapOneEmulated(st.insertionCounter, obj)
          IN s @@ searchLoop(s.array, searchObj.obj, lo, hi, hi \div 2)

\* the two expansion loops of searchAll; the upward one reads this.array[i]
\* for every i <= max it gets to, and this.array[length] has no obj
RECURSIVE expandUp(_, _, _, _)
expandUp(arr, obj, i, max) ==
  IF i > max THEN [status |-> "ok", results |-> <<>>]
  ELSE IF i >= Len(arr) THEN [status |-> "TypeError", results |-> <<>>]
  ELSE IF originalCompareFn(obj, At(arr, i).obj) = 0
  THEN LET rest == expandUp(arr, obj, i + 1, max)
       IN [status |-> rest.status, results |-> <<i>> \o rest.results]
  ELSE [status |-> "ok", results |-> <<>>]

RECURSIVE expandDown(_, _, _, _)
expandDown(arr, obj, i, min) ==
  IF i >= min /\ originalCompareFn(obj, At(arr, i).obj) = 0
  THEN expandDown(arr, obj, i - 1, min) \o <<i>>
  ELSE <<>>

\* searchAll after its call of search: result is what search returned
expandAll(result, obj, min, max) ==
  LET flags == [array |-> result.array, sorted |-> result.sorted,
                sorting |-> result.sorting, compares |-> result.compares]
  IN IF result.status # "ok" \/ ~result.found
     THEN flags @@ [status |-> result.status, results |-> <<>>]
     ELSE LET up == expandUp(result.array, obj, result.index, max)
          IN IF up.status # "ok" THEN flags @@ up
             ELSE flags @@ [status |-> "ok",
                            results |-> expandDown(result.array, obj,
                                                   result.index - 1, min)
                                          \o up.results]

searchAll(st, obj, min, max) ==
  LET lo == IF min = <<>> THEN Integer(0) ELSE min[1]
      hi == IF max = <<>> THEN Integer(Len(st.array) - 1) ELSE max[1]
  IN expandAll(search(st, obj, <<lo>>, <<hi>>), obj, lo.n, hi.n)

\* the filter of searchExact: result is what searchAll returned
filterExact(result, obj) ==
  [result EXCEPT !.results =
     SelectSeq(result.results, LAMBDA v : At(result.array, v).obj = obj)]

searchExact(st, obj, min, max) == filterExact(searchAll(st, obj, min, max), obj)

\* the boundary scans of searchNth: one past the last match / one before the first
RECURSIVE scanUp(_, _, _)
scanUp(arr, obj, index) ==
  IF index < Len(arr) /\ originalCompareFn(obj, At(arr, index).obj) = 0
  THEN scanUp(arr, obj, index + 1)
  ELSE index

\* (variant: takes the match the binary search returned for the first one)
scanDown_noScan(arr, obj, index) == index

RECURSIVE scanDown(_, _, _)
scanDown(arr, obj, index) ==
  IF index >= 0 /\ originalCompareFn(obj, At(arr, index).obj) = 0
  THEN scanDown(arr, obj, index - 1)
  ELSE index

\* n is optional; a number n is [sign, abs], -0 being [sign |-> -1, abs |-> 0].
\* The returned index is optional: <<>> is the undefined read past the ends of
\* the list of exact matches.
\* the exact branch of searchNth after its call of searchExact, which
\* returned r
nthExact(r, n) ==
  LET direction == IF n = <<>> THEN 0 ELSE n[1].sign
      offset == IF n = <<>> THEN 0 ELSE n[1].sign * n[1].abs
      result == r.results
      flags == [array |-> r.array, sorted |-> r.sorted, sorting |-> r.sorting,
                status |-> r.status, compares |-> r.compares]
  IN IF r.status # "ok" THEN flags @@ [index |-> <<>>, found |-> FALSE]
     ELSE IF n = <<>> THEN flags @@ [index |-> <<>>, found |-> TRUE]
     ELSE IF offset >= Len(result) THEN flags @@ [index |-> <<-1>>, found |-> FALSE]
     ELSE LET index == (IF direction = 1 THEN 0 ELSE Len(result) - 1) + offset
          IN flags @@ [index |-> IF 0 <= index /\ index < Len(result)
                                 THEN <<At(result, index)>> ELSE <<>>,
                       found |-> TRUE]

\* the other branch of searchNth after its call of search, which returned
\* result
nthMatch(result, obj, n) ==
  LET direction == IF n = <<>> THEN 0 ELSE n[1].sign
      offset == IF n = <<>> THEN 0 ELSE n[1].sign * n[1].abs
      flags == [array |-> result.array, sorted |-> result.sorted,
                sorting |-> result.sorting, status |-> result.status,
                compares |-> result.compares]
  IN IF result.status # "ok" \/ ~result.found \/ n = <<>>
     THEN flags @@ [index |-> <<result.index>>, found |-> result.found]
     ELSE LET arr == result.array
              index == IF direction = -1
                       THEN scanUp(arr, obj, result.index + 1) + offset - 1
                       ELSE scanDown(arr, obj, result.index - 1) + offset + 1
              found == /\ 0 <= index
                       /\ index < Len(arr)
                       /\ originalCompareFn(obj, At(arr, index).obj) = 0
          IN flags @@ [index |-> <<index>>, found |-> found]

searchNth(st, obj, n, min, max, exact) ==
  IF exact THEN nthExact(searchExact(st, obj, min, max), n)
  ELSE nthMatch(search(st, obj, min, max), obj, n)

FindResult(arr, index) == [obj |-> At(arr, index).obj, index |-> index]

\* the values n takes: undefined, and the integers -MaxLen..MaxLen with both zeros
NthArgs ==
  {<<>>} \cup {<<[sign |-> sg, abs |-> k]>> : sg \in {1, -1}, k \in 0..MaxLen}

\* findNth(obj, n, exact) for obj and n drawn from objs and ns
findNthOn(objs, ns, exact) ==
  \E obj \in objs, n \in ns :
    \E result \in {searchNth(_sort(array, sorted, sorting)
                                 @@ [insertionCounter |-> insertionCounter],
                               obj, n, <<>>, <<>>, exact)} :
       /\ array' = result.array
       /\ sorted' = result.sorted
       /\ sorting' = result.sorting
       /\ ret' = [op |-> "findNth", obj |-> obj, n |-> n, exact |-> exact,
                  compares |-> result.compares,
                  status |-> IF result.status # "ok" THEN result.status
                             ELSE IF result.found /\ result.index = <<>> THEN "TypeError"
                             ELSE "ok",
                  value |-> IF result.status = "ok" /\ result.found /\ result.index # <<>>
                            THEN <<FindResult(result.array, result.index[1])>>
                            ELSE <<>>]
       /\ UNCHANGED <<insertionCounter, mutated, iterator>>

findNthCall(exact) == findNthOn(Objs, NthArgs, exact)

\* findNth(obj, n) and findNth(obj, n, false)
FindNth == findNthCall(FALSE)

\* findNth(obj, n, true)
FindNthExact == findNthCall(TRUE)

\* findAll(obj, exact) for obj drawn from objs
findAllOn(objs) ==
  \E obj \in objs, exact \in BOOLEAN :
    \E st \in {_sort(array, sorted, sorting) @@ [insertionCounter |-> insertionCounter]} :
     \E result \in {IF exact THEN searchExact(st, obj, <<>>, <<>>)
                     ELSE searchAll(st, obj, <<>>, <<>>)} :
       /\ array' = result.array
       /\ sorted' = result.sorted
       /\ sorting' = result.sorting
       /\ ret' = [op |-> "findAll", obj |-> obj, exact |-> exact,
                  compares |-> result.compares,
                  status |-> result.status,
                  value |-> [i \in DOMAIN result.results |->
                               FindResult(result.array, result.results[i])]]
       /\ UNCHANGED <<insertionCounter, mutated, iterator>>

\* ---- includes, indexOf, lastIndexOf ----
\* calcTrueIndex on an optional number (without the case of -0)
\* (variant: counts from the back without the - 1)
calcTrueIndex_fromLength(len, index) ==
  IF index = <<>> \/ index[1].kind = "NaN" \/ index[1].n >= 0 THEN index
  ELSE <<[index[1] EXCEPT !.n = len + @]>>

calcTrueIndex(len, index) ==
  IF index = <<>> \/ index[1].kind = "NaN" \/ index[1].n >= 0 THEN index
  ELSE <<[index[1] EXCEPT !.n = len + @ - 1]>>

\* the body shared by includes, indexOf and lastIndexOf (method names which);
\* the value returned is <<v>>, and <<>> when the call throws
lookupCall(method, obj, fromIndex, toIndex, exact) ==
  \E st \in {_sort(array, sorted, sorting) @@ [insertionCounter |-> insertionCounter]} :
   \E from \in {calcTrueIndex(Len(array), fromIndex)} :
    \E to \in {calcTrueIndex(Len(array), toIndex)} :
     \E n \in {CASE method = "includes" -> <<>>
                 [] method = "indexOf" -> <<[sign |-> 1, abs |-> 0]>>
                 [] method = "lastIndexOf" -> <<[sign |-> -1, abs |-> 0]>>} :
      \E results \in {IF exact THEN searchExact(st, obj, from, to)
                      ELSE searchNth(st, obj, n, from, to, FALSE)} :
        /\ array' = results.array
        /\ sorted' = results.sorted
        /\ sorting' = results.sorting
        /\ ret' = [op |-> method, obj |-> obj, fromIndex |-> fromIndex,
                   toIndex |-> toIndex, exact |-> exact,
                   status |-> results.status, compares |-> results.compares,
                   value |->
                     IF results.status # "ok" THEN <<>>
                     ELSE IF exact
                     THEN CASE method = "includes" -> <<Len(results.results) > 0>>
                            [] method = "indexOf" ->
                                 IF Len(results.results) > 0
                                 THEN <<Head(results.results)>> ELSE <<-1>>
                            [] method = "lastIndexOf" ->
                                 IF Len(results.results) > 0
                                 THEN <<Last(results.results)>> ELSE <<-1>>
                     ELSE IF method = "includes" THEN <<results.found>>
                     ELSE IF results.found THEN results.index ELSE <<-1>>]
        /\ UNCHANGED <<insertionCounter, mutated, iterator>>

\* bounds inside a collection of len elements, 0 <= from <= to <= len - 1, and
\* both bounds omitted
Ranges(len) ==
  {<<<<>>, <<>>>>}
    \cup UNION {{<<<<Integer(from)>>, <<Integer(to)>>>> : to \in from..(len - 1)} :
                 from \in 0..(len - 1)}

\* indexOf(searchElement, fromIndex, toIndex)
IndexOf ==
  \E obj \in Objs, range \in Ranges(Len(array)) :
    lookupCall("indexOf", obj, range[1], range[2], FALSE)

\* lastIndexOf(searchElement, fromIndex, toIndex)
LastIndexOf ==
  \E obj \in Objs, range \in Ranges(Len(array)) :
    lookupCall("lastIndexOf", obj, range[1], range[2], FALSE)

\* the values given for one bound of a collection of len elements: left out,
\* negative and non-negative integers up to one past the length, 0.5 and NaN
Bounds(len) ==
  {<<>>, <<Integer(-(len + 1))>>, <<Integer(-1)>>, <<Integer(len)>>,
   <<Integer(len + 1)>>, <<Fraction(0)>>, <<NaN>>}

\* a value for fromIndex with toIndex left out, or the other way round
BoundPairs(len) ==
  {<<b, <<>>>> : b \in Bounds(len)} \cup {<<<<>>, b>> : b \in Bounds(len)}

\* includes(searchElement, fromIndex, toIndex, exact)
Includes ==
  \E range \in BoundPairs(Len(array)), exact \in BOOLEAN :
    lookupCall("includes", 1, range[1], range[2], exact)

\* indexOf(searchElement, fromIndex, toIndex, exact) with any bound
IndexOfBounds ==
  \E range \in BoundPairs(Len(array)), exact \in BOOLEAN :
    lookupCall("indexOf", 1, range[1], range[2], exact)

\* lastIndexOf(searchElement, fromIndex, toIndex, exact) with any bound
LastIndexOfBounds ==
  \E range \in BoundPairs(Len(array)), exact \in BOOLEAN :
    lookupCall("lastIndexOf", 1, range[1], range[2], exact)

\* includes(searchElement, undefined, toIndex, exact) with 0 <= toIndex <= length
IncludesUpTo ==
  \E obj \in Objs, to \in 0..Len(array), exact \in BOOLEAN :
    lookupCall("includes", obj, <<>>, <<Integer(to)>>, exact)

\* indexOf(searchElement, undefined, toIndex, exact) with 0 <= toIndex <= length
IndexOfUpTo ==
  \E obj \in Objs, to \in 0..Len(array), exact \in BOOLEAN :
    lookupCall("indexOf", obj, <<>>, <<Integer(to)>>, exact)

\* lastIndexOf(searchElement, undefined, toIndex, exact) with 0 <= toIndex <= length
LastIndexOfUpTo ==
  \E obj \in Objs, to \in 0..Len(array), exact \in BOOLEAN :
    lookupCall("lastIndexOf", obj, <<>>, <<Integer(to)>>, exact)

FindAll == findAllOn(Objs \cup Probes)

\* findNearest(obj) for obj drawn from objs.
\* -Infinity and Infinity of findNearest are -1 and the length ("any number
\* < 0" and "any number >= this.array.length" work, as the code says)
findNearestOn(objs) ==
  \E obj \in objs :
   \E result \in {search([array |-> array, sorted |-> sorted, sorting |-> sorting,
                            insertionCounter |-> insertionCounter], obj, <<>>, <<>>)} :
    LET arr == result.array
        compare == originalCompareFn(obj, At(arr, result.index).obj)
        ltIndex == IF result.index < 0 THEN -1
                   ELSE IF result.index >= Len(arr) THEN Len(arr) - 1
                   ELSE result.index - (IF compare < 0 THEN 1 ELSE 0)
        gtIndex == IF result.index < 0 THEN 0
                   ELSE IF result.index >= Len(arr) THEN Len(arr)
                   ELSE result.index + (IF compare > 0 THEN 1 ELSE 0)
    IN /\ array' = arr
       /\ sorted' = result.sorted
       /\ sorting' = result.sorting
       /\ ret' = IF result.status # "ok"
                 THEN [op |-> "findNearest", obj |-> obj, status |-> result.status,
                       compares |-> result.compares, hint |-> result.index,
                       eq |-> <<>>, lt |-> <<>>, gt |-> <<>>]
                 ELSE IF result.found
                 THEN [op |-> "findNearest", obj |-> obj, status |-> result.status,
                       compares |-> result.compares, hint |-> result.index,
                       eq |-> <<FindResult(arr, result.index)>>, lt |-> <<>>, gt |-> <<>>]
                 ELSE [op |-> "findNearest", obj |-> obj, status |-> result.status,
                       compares |-> result.compares, hint |-> result.index,
                       eq |-> <<>>,
                       lt |-> IF ltIndex < 0 THEN <<>> ELSE <<FindResult(arr, ltIndex)>>,
                       gt |-> IF gtIndex >= Len(arr) THEN <<>>
                              ELSE <<FindResult(arr, gtIndex)>>]
       /\ UNCHANGED <<insertionCounter, mutated, iterator>>

FindNearest == findNearestOn(Objs \cup Probes)

\* ---- lookups with a key the comparator cannot compare ----
\* findNth(obj, n, exact) with obj [NaN, 0] or a stored object
FindNthNaN == \E exact \in BOOLEAN : findNthOn({NaNKey, 1}, NthArgs, exact)

FindAllNaN == findAllOn({NaNKey, 1})

FindNearestNaN == findNearestOn({NaNKey, -1})

\* includes(obj, undefined, undefined, exact)
IncludesNaN ==
  \E obj \in {NaNKey, 1}, exact \in BOOLEAN :
    lookupCall("includes", obj, <<>>, <<>>, exact)

\* indexOf(obj, undefined, undefined, exact)
IndexOfNaN ==
  \E obj \in {NaNKey, 1}, exact \in BOOLEAN :
    lookupCall("indexOf", obj, <<>>, <<>>, exact)

\* ---- the example of the README ----
\* [1, 1], [1, 2], [2, 1], [2, 2], [2, 3], exact, exact with exact = [3, 1]
ReadmeArray == <<11, 12, 21, 22, 23, 31, 31>>

\* the keys looked up: the stored payloads and the literals [1, 1], [2, 1],
\* [4, 1] and [0, 0]
ReadmeKeys == {11, 12, 21, 22, 23, 31, 111, 121, 141, 100}

\* new SortedArray((a, b) => a[0] - b[0], array)
InitReadme ==
  LET w == pushAll(<<>>, MIN_SAFE_INTEGER, ReadmeArray, FALSE)
  IN /\ array = w.array
     /\ insertionCounter = w.insertionCounter
     /\ sorted = FALSE
     /\ sorting = FALSE
     /\ mutated = {}
     /\ iterator = <<>>
     /\ ret = [op |-> "new"]

FindNthReadme == \E exact \in BOOLEAN : findNthOn(ReadmeKeys, NthArgs, exact)

FindAllReadme == findAllOn(ReadmeKeys)

FindNearestReadme == findNearestOn(ReadmeKeys)

\* ---- properties ----
SameKey(a, b) == originalCompareFn(a, b) = 0

\* strictly increasing under the Augmented Comparator
IsSortedAugmented(arr) ==
  \A i, j \in DOMAIN arr : i < j => compareFn(arr[i], arr[j]) < 0

\* non-decreasing under the Payload Comparator
IsNonDecreasing(objs) ==
  \A i, j \in DOMAIN objs : i < j => originalCompareFn(objs[i], objs[j]) <= 0

\* comparator-equal nodes stand in the order of their insertion
TiesInInsertionOrder(arr) ==
  \A i, j \in DOMAIN arr :
    (i < j /\ SameKey(arr[i].obj, arr[j].obj)) => arr[i].ins < arr[j].ins

\* C1: every snapshot returned by toArray and every element returned by get(i)
\* is read from storage that is sorted by the Augmented Comparator, so the
\* snapshot is non-decreasing under the Payload Comparator.
C1_Sortedness ==
  /\ ret.op = "toArray" =>
       /\ IsSortedAugmented(array)
       /\ ret.value = unwrap(array)
       /\ IsNonDecreasing(ret.value)
  /\ (ret.op = "get" /\ ret.status = "ok") =>
       /\ IsSortedAugmented(array)
       /\ ret.value = <<At(array, ret.index).obj>>

\* a snapshot of three elements with a tie and two different keys
C1_Witness ==
  /\ ret.op = "toArray"
  /\ Len(ret.value) = 3
  /\ \E i, j \in DOMAIN ret.value : i # j /\ SameKey(ret.value[i], ret.value[j])
  /\ \E i, j \in DOMAIN ret.value : ~SameKey(ret.value[i], ret.value[j])

\* C2: in every snapshot, of two stored elements that compare equal the one
\* inserted first has the smaller index.
C2_InsertionOrderTieBreak ==
  ret.op = "toArray" =>
    /\ ret.value = unwrap(array)
    /\ TiesInInsertionOrder(array)

\* a snapshot holding two distinct instances that compare equal, the later
\* instance (object 1) inserted after object 2
C2_Witness ==
  /\ ret.op = "toArray"
  /\ \E i, j \in DOMAIN array :
       i < j /\ array[i].obj = 2 /\ array[j].obj = 1 /\ array[j].ins = 3

\* the nodes of arr that were stored before the add (insertion rank <= n)
OldNodes(arr, n) == SelectSeq(arr, LAMBDA node : node.ins <= n)

Ranks(arr) == [i \in DOMAIN arr |-> arr[i].ins]

\* C3: an add during which the renumbering pass runs leaves the sorted view of
\* the previously stored elements in the same relative order, and every
\* comparator-equal group of the new sorted view in insertion order (elements
\* added by the call after all earlier ones).
C3_RenumberPreservesOrder ==
  [][(ret'.op = "add" /\ ret'.reduced) =>
       /\ Ranks(OldNodes(arraySort(array'), Len(array))) = Ranks(arraySort(array))
       /\ unwrap(OldNodes(arraySort(array'), Len(array))) = unwrap(arraySort(array))
       /\ TiesInInsertionOrder(arraySort(array'))]_vars

\* a renumbering add that leaves three comparator-equal elements stored
C3_Witness ==
  /\ ret.op = "add"
  /\ ret.reduced
  /\ Len(array) = 3
  /\ \A i, j \in DOMAIN array : SameKey(array[i].obj, array[j].obj)

\* 0-based positions of the storage whose element compares equal to obj
Matches(arr, obj) == {i \in 0..(Len(arr) - 1) : SameKey(obj, At(arr, i).obj)}

\* 0-based positions of the storage whose element is the instance obj
ExactMatches(arr, obj) == {i \in 0..(Len(arr) - 1) : At(arr, i).obj = obj}

SetMin(S) == CHOOSE x \in S : \A y \in S : x <= y

SetMax(S) == CHOOSE x \in S : \A y \in S : x >= y

\* the elements of a set of integers in ascending order
RECURSIVE Ascending(_)
Ascending(S) == IF S = {} THEN <<>> ELSE <<SetMin(S)>> \o Ascending(S \ {SetMin(S)})

\* C4: findAll(key) (non-exact) returns one contiguous ascending run of indices,
\* as many as there are stored elements comparing equal to key, each paired
\* with the element at that index; the empty list when there is none.
C4_FindAllContiguity ==
  (ret.op = "findAll" /\ ~ret.exact) =>
    /\ ret.status = "ok"
    /\ Len(ret.value) = Cardinality(Matches(array, ret.obj))
    /\ \A k \in DOMAIN ret.value :
         /\ ret.value[k].index \in Matches(array, ret.obj)
         /\ ret.value[k].obj = At(array, ret.value[k].index).obj
         /\ k > 1 => ret.value[k].index = ret.value[k - 1].index + 1

\* C4 on collections that hold at least one element
C4_FindAllContiguityNonEmpty ==
  (ret.op = "findAll" /\ ~ret.exact /\ array # <<>>) => C4_FindAllContiguity

\* C5: for a run of k matches at first..last, findNth(key, n) (non-exact) is
\* first+n for 0 <= n < k, last-|n| for n = -0 and negative n with |n| < k,
\* and undefined when |n| >= k.
C5_NthMatchSymmetry ==
  (ret.op = "findNth" /\ ~ret.exact /\ ret.n # <<>>) =>
    LET run == Matches(array, ret.obj)
        n == ret.n[1]
        index == IF n.sign = 1 THEN SetMin(run) + n.abs ELSE SetMax(run) - n.abs
    IN /\ ret.status = "ok"
       /\ IsSortedAugmented(array)
       /\ IF n.abs < Cardinality(run)
          THEN ret.value = <<[obj |-> At(array, index).obj, index |-> index]>>
          ELSE ret.value = <<>>

\* findNth(key, -1) on a run of three matches returns the middle one
C5_Witness ==
  /\ ret.op = "findNth"
  /\ ~ret.exact
  /\ ret.n = <<[sign |-> -1, abs |-> 1]>>
  /\ Cardinality(Matches(array, ret.obj)) = 3
  /\ ret.value # <<>>
  /\ ret.value[1].index = 1

\* C6: with the exact matches of obj at e_0 < ... < e_(m-1), findNth(obj, n,
\* true) is e_n for 0 <= n < m, e_(m-1-|n|) for n = -0 and negative n with
\* |n| < m, and undefined (no error) for every integer n with |n| >= m.
C6_NthExact ==
  (ret.op = "findNth" /\ ret.exact /\ ret.n # <<>>) =>
    LET e == Ascending(ExactMatches(array, ret.obj))
        m == Len(e)
        n == ret.n[1]
        index == IF n.sign = 1 THEN At(e, n.abs) ELSE At(e, m - 1 - n.abs)
    IN /\ ret.status = "ok"
       /\ IF n.abs < m
          THEN ret.value = <<[obj |-> ret.obj, index |-> index]>>
          ELSE ret.value = <<>>

\* C6 on collections that hold at least one element
C6_NthExactNonEmpty ==
  (ret.op = "findNth" /\ ret.exact /\ ret.n # <<>> /\ array # <<>>) => C6_NthExact

\* C6 restricted to the calls the exact branch answers: a non-empty
\* collection, and n >= 0 or |n| < m
C6_NthExactInRange ==
  (/\ ret.op = "findNth" /\ ret.exact /\ ret.n # <<>> /\ array # <<>>
   /\ \/ ret.n[1].sign = 1
      \/ ret.n[1].abs < Cardinality(ExactMatches(array, ret.obj)))
    => C6_NthExact

\* C7: findAll(obj, true) returns exactly the indices of the stored elements
\* that are the instance obj, in ascending order.
C7_FindAllExact ==
  (ret.op = "findAll" /\ ret.exact) =>
    /\ ret.status = "ok"
    /\ ret.value = [k \in 1..Cardinality(ExactMatches(array, ret.obj)) |->
                      [obj |-> ret.obj,
                       index |-> Ascending(ExactMatches(array, ret.obj))[k]]]
    /\ TiesInInsertionOrder(array)

\* C7 on collections that hold at least one element
C7_FindAllExactNonEmpty ==
  (ret.op = "findAll" /\ ret.exact /\ array # <<>>) => C7_FindAllExact

\* C8: findNearest on an empty collection returns {lt: none, gt: none}; on a
\* non-empty one {eq} with a comparator-equal element iff there is one, else
\* {lt, gt}: the last element less than the key and the first one greater
\* (none where there is none), adjacent when both exist.
C8_NearestTotality ==
  ret.op = "findNearest" =>
    LET eqs == Matches(array, ret.obj)
        lts == {i \in 0..(Len(array) - 1) : originalCompareFn(At(array, i).obj, ret.obj) < 0}
        gts == {i \in 0..(Len(array) - 1) : originalCompareFn(At(array, i).obj, ret.obj) > 0}
    IN /\ ret.status = "ok"
       /\ IsSortedAugmented(array)
       /\ IF eqs # {}
          THEN /\ ret.lt = <<>> /\ ret.gt = <<>> /\ ret.eq # <<>>
               /\ ret.eq[1].index \in eqs
               /\ ret.eq[1].obj = At(array, ret.eq[1].index).obj
          ELSE /\ ret.eq = <<>>
               /\ ret.lt = IF lts = {} THEN <<>> ELSE <<FindResult(array, SetMax(lts))>>
               /\ ret.gt = IF gts = {} THEN <<>> ELSE <<FindResult(array, SetMin(gts))>>
               /\ (ret.lt # <<>> /\ ret.gt # <<>>) => ret.gt[1].index = ret.lt[1].index + 1

\* a key strictly between two stored elements, three elements stored
C8_Witness ==
  /\ ret.op = "findNearest"
  /\ Len(array) = 3
  /\ ret.lt # <<>>
  /\ ret.gt # <<>>
  /\ ret.gt[1].index = 2

\* the call removeAll(indices) names pairwise distinct indices of a storage of
\* length len
DistinctInRange(indices, len) ==
  /\ \A k \in DOMAIN indices : 0 <= indices[k] /\ indices[k] < len
  /\ \A k, l \in DOMAIN indices : k # l => indices[k] # indices[l]

\* the SANode fields of the nodes of arr
Nodes(arr) == [i \in DOMAIN arr |-> [obj |-> arr[i].obj, index |-> arr[i].index]]

\* arr without the 0-based positions in S
Without(arr, S) ==
  LET keep == Ascending({i \in 0..(Len(arr) - 1) : i \notin S})
  IN [k \in DOMAIN keep |-> At(arr, keep[k])]

\* C9: removeAll with pairwise distinct in-range indices removes exactly the
\* elements at those indices of the sorted view before the call and leaves
\* the others stored in their previous relative order, still sorted.
C9_RemoveFrame ==
  [][(ret'.op = "removeAll" /\ DistinctInRange(ret'.indices, Len(array))) =>
       /\ ret'.status = "ok"
       /\ Nodes(array') = Nodes(Without(arraySort(array),
                                        {ret'.indices[k] : k \in DOMAIN ret'.indices}))
       /\ IsSortedAugmented(array')
       /\ sorted']_vars

\* two elements removed, the lower index first, one element left
C9_Witness ==
  /\ ret.op = "removeAll"
  /\ ret.status = "ok"
  /\ Len(ret.indices) = 2
  /\ ret.indices[1] < ret.indices[2]
  /\ Len(array) = 1

\* C10: removeAll returns the removed payloads in the order in which their
\* indices were requested.
C10_RemoveReturnsRequestOrder ==
  [][(ret'.op = "removeAll" /\ DistinctInRange(ret'.indices, Len(array))) =>
       /\ ret'.status = "ok"
       /\ ret'.value = [k \in DOMAIN ret'.indices |->
                          At(arraySort(array), ret'.indices[k]).obj]]_vars

\* C10 (amended): removeAll returns the removed payloads in ascending order of
\* their indices, whatever the order of the request.
C10_RemoveReturnsIndexOrder ==
  [][(ret'.op = "removeAll" /\ DistinctInRange(ret'.indices, Len(array))) =>
       /\ ret'.status = "ok"
       /\ ret'.value =
            [k \in DOMAIN ret'.indices |->
               At(arraySort(array),
                  Ascending({ret'.indices[l] : l \in DOMAIN ret'.indices})[k]).obj]]_vars

\* indices requested in descending order, two different payloads returned
C10_Witness ==
  /\ ret.op = "removeAll"
  /\ ret.status = "ok"
  /\ Len(ret.indices) = 2
  /\ ret.indices[1] > ret.indices[2]
  /\ ret.value[1] # ret.value[2]

\* C11: get(i) throws a RangeError exactly when i < 0 or i >= length, changing
\* nothing, and otherwise returns the i-th element of the sorted view; removeAll
\* throws a RangeError when any requested index is outside [0, length-1] of
\* the collection as it was before the call.
C11_OutOfBounds ==
  [][/\ ret'.op = "get" =>
           IF ret'.index < 0 \/ ret'.index >= Len(array)
           THEN /\ ret'.status = "RangeError"
                /\ UNCHANGED <<array, sorted, sorting, insertionCounter>>
           ELSE /\ ret'.status = "ok"
                /\ ret'.value = <<At(arraySort(array), ret'.index).obj>>
                /\ Nodes(array') = Nodes(arraySort(array))
     /\ (/\ ret'.op = "removeAll"
         /\ \E k \in DOMAIN ret'.indices :
               ret'.indices[k] < 0 \/ ret'.indices[k] >= Len(array))
          => ret'.status = "RangeError"]_vars

\* removeAll([0, length]) on a collection of two elements throws
C11_Witness ==
  /\ ret.op = "removeAll"
  /\ ret.status = "RangeError"
  /\ ret.indices = <<0, 2>>
  /\ Len(array) = 1

\* the names of the operations that are rejected whatever their arguments
Rejected == {"push", "concat", "reverse", "unshift", "fill", "copyWithin", "set"}

\* C12: push, concat, reverse, unshift, fill, copyWithin, assignment by index,
\* sort with a comparator, splice with replacement items and setting length
\* above the current length throw an error and leave the stored elements,
\* their sequence numbers, the dirty flag and the insertion counter unchanged.
C12_RejectedMutations ==
  [][(\/ ret'.op \in Rejected
      \/ ret'.op = "sort" /\ ret'.compareFn
      \/ ret'.op = "splice" /\ ret'.items # <<>>
      \/ ret'.op = "setLength" /\ ret'.newLength > Len(array))
       => /\ ret'.status \in {"Error", "RangeError"}
          /\ UNCHANGED <<array, sorted, sorting, insertionCounter>>]_vars

\* splice with a replacement item rejected on a dirty collection of three
C12_Witness ==
  /\ ret.op = "splice"
  /\ ret.items # <<>>
  /\ ret.status = "Error"
  /\ ~sorted
  /\ Len(array) = 3
  /\ ~IsSortedAugmented(array)

\* C15: length = k with 0 <= k <= length makes the length k and leaves the
\* collection holding exactly the first k elements of the sorted view it had
\* before the assignment, dirty or not.
C15_LengthShortening ==
  [][(ret'.op = "setLength" /\ 0 <= ret'.newLength /\ ret'.newLength <= Len(array))
       => /\ ret'.status = "ok"
          /\ Len(array') = ret'.newLength
          /\ Nodes(arraySort(array')) =
               Nodes(SubSeq(arraySort(array), 1, ret'.newLength))]_vars

\* C15 on collections that are sorted when length is assigned
C15_LengthShorteningSorted ==
  [][(/\ ret'.op = "setLength" /\ 0 <= ret'.newLength /\ ret'.newLength <= Len(array)
      /\ IsSortedAugmented(array))
       => /\ ret'.status = "ok"
          /\ Len(array') = ret'.newLength
          /\ Nodes(arraySort(array')) =
               Nodes(SubSeq(arraySort(array), 1, ret'.newLength))]_vars

\* a relative index of a plain array of len elements, clamped to 0..len
RelativeIndex(len, i) == IF i < 0 THEN Max(len + i, 0) ELSE Min(i, len)

\* what slice(start, end) returns on the plain array snap
PlainSlice(snap, start, end) ==
  LET from == RelativeIndex(Len(snap), start)
      to == RelativeIndex(Len(snap), end)
  IN [k \in 1..(to - from) |-> snap[from + k]]

\* what splice(start, deleteCount) returns on the plain array snap, and what
\* it leaves
PlainSplice(snap, start, deleteCount) ==
  LET from == RelativeIndex(Len(snap), start)
      count == Min(Max(deleteCount, 0), Len(snap) - from)
  IN [removed |-> [k \in 1..count |-> snap[from + k]],
      left |-> [k \in 1..(Len(snap) - count) |->
                  IF k <= from THEN snap[k] ELSE snap[k + count]]]

\* neighbours in ascending order under the Augmented Comparator
Ordered(arr) == \A i \in 1..(Len(arr) - 1) : compareFn(arr[i], arr[i + 1]) < 0

\* the storage put in order (a stable sort leaves ordered storage as it is)
SortedView(arr) == IF Ordered(arr) THEN arr ELSE arraySort(arr)

\* C14: on a non-empty collection pop returns and removes the last element of
\* the sorted snapshot and shift the first; slice(start, end) returns what
\* slice returns on the snapshot and changes nothing; splice(start,
\* deleteCount) returns and removes what splice does on the snapshot; after
\* each call the storage is in order, so that toArray returns it as it is, and
\* equals the plain array after the same operation.
C14_PlainArrayRefinement ==
  [][ret'.op \in {"pop", "shift", "slice", "splice"} =>
      \A snap \in {unwrap(SortedView(array))} :
        /\ Ordered(array')
        /\ (ret'.op = "pop" /\ snap # <<>>) =>
             /\ ret'.status = "ok"
             /\ ret'.value = <<Last(snap)>>
             /\ unwrap(array') = Front(snap)
        /\ (ret'.op = "shift" /\ snap # <<>>) =>
             /\ ret'.status = "ok"
             /\ ret'.value = <<Head(snap)>>
             /\ unwrap(array') = Tail(snap)
        /\ ret'.op = "slice" =>
             /\ ret'.value = PlainSlice(snap, ret'.start, ret'.end)
             /\ unwrap(array') = snap
        /\ (ret'.op = "splice" /\ ret'.deleteCount # <<>>) =>
             \A plain \in {PlainSplice(snap, ret'.start, ret'.deleteCount[1])} :
               /\ ret'.status = "ok"
               /\ ret'.value = plain.removed
               /\ unwrap(array') = plain.left]_vars

\* splice(-1, 3) on a collection of three elements removed the last one,
\* which is greater than the two that are left
C14_Witness ==
  /\ ret.op = "splice"
  /\ ret.start = -1
  /\ ret.deleteCount = <<3>>
  /\ Len(ret.value) = 1
  /\ Len(array) = 2
  /\ originalCompareFn(array[2].obj, ret.value[1]) < 0

\* the 0-based positions from..to of a lookup restricted to in-range bounds,
\* all positions when the bounds are omitted
RangeOf(len, fromIndex, toIndex) ==
  IF fromIndex = <<>> THEN 0..(len - 1) ELSE fromIndex[1].n..toIndex[1].n

\* C17: for bounds 0 <= from <= to <= length-1, non-exact indexOf(x, from, to)
\* returns the smallest index in from..to whose element compares equal to x,
\* lastIndexOf the largest, both -1 when there is none in from..to; with the
\* bounds omitted the range is the whole collection.
C17_RangeRestrictedLookup ==
  (ret.op \in {"indexOf", "lastIndexOf"} /\ ~ret.exact) =>
    LET inside == Matches(array, ret.obj)
                    \cap RangeOf(Len(array), ret.fromIndex, ret.toIndex)
    IN /\ ret.status = "ok"
       /\ ret.value = IF inside = {} THEN <<-1>>
                      ELSE IF ret.op = "indexOf" THEN <<SetMin(inside)>>
                      ELSE <<SetMax(inside)>>

\* C17 for the calls that omit both bounds
C17_WholeRangeLookup ==
  (ret.op \in {"indexOf", "lastIndexOf"} /\ ~ret.exact /\ ret.fromIndex = <<>>)
    => C17_RangeRestrictedLookup

\* the bound a lookup searches with: a negative index counts from the last
\* element
EffectiveBound(len, index) ==
  IF index # <<>> /\ index[1].kind # "NaN" /\ index[1].n < 0
  THEN <<[index[1] EXCEPT !.n = len + index[1].n - 1]>>
  ELSE index

NonNegativeInteger(bound) == bound.kind = "integer" /\ bound.n >= 0

\* the effective min or the effective max of a lookup on len elements is
\* not acceptable
InvalidBounds(len, fromIndex, toIndex) ==
  LET min == EffectiveBound(len, fromIndex)
      max == EffectiveBound(len, toIndex)
  IN \/ min # <<>> /\ ~NonNegativeInteger(min[1])
     \/ max # <<>> /\ (~NonNegativeInteger(max[1]) \/ max[1].n > len)

Lookups == {"includes", "indexOf", "lastIndexOf"}

\* C20 as stated: includes, indexOf and lastIndexOf with an effective min that
\* is not a non-negative integer, or an effective max that is not one or
\* exceeds the length, raise an error before any comparison and leave the
\* storage as it was.
C20_InvalidBoundsUntouched ==
  [][(ret'.op \in Lookups /\ InvalidBounds(Len(array), ret'.fromIndex, ret'.toIndex))
       => /\ ret'.status = "Error"
          /\ ret'.compares = 0
          /\ array' = array]_vars

\* C20 amended: such a call raises the error before any comparison of the
\* search; the pending sort has run first, so the storage holds the same
\* elements with the same sequence numbers in sorted order, the snapshot is
\* what it was, and the sequence counter is unchanged.
C20_InvalidBoundsAfterSort ==
  [][(ret'.op \in Lookups /\ InvalidBounds(Len(array), ret'.fromIndex, ret'.toIndex))
       => /\ ret'.status = "Error"
          /\ ret'.value = <<>>
          /\ ret'.compares = 0
          /\ array' = SortedView(array)
          /\ sorted'
          /\ insertionCounter' = insertionCounter]_vars

\* lastIndexOf(obj, -1, undefined, true) thrown on a single element (the
\* effective min is -1)
C20_Witness ==
  /\ ret.op = "lastIndexOf"
  /\ ret.exact
  /\ ret.fromIndex = <<Integer(-1)>>
  /\ ret.status = "Error"
  /\ Len(array) = 1

\* Array.prototype.reduce / reduceRight on the plain array snap, from 0-based
\* position i in direction step, with the same callback
RECURSIVE PlainFold(_, _, _, _, _)
PlainFold(snap, i, step, accumulator, calls) ==
  IF i < 0 \/ i >= Len(snap) THEN [status |-> "ok", value |-> accumulator, calls |-> calls]
  ELSE PlainFold(snap, i + step, step, callbackfn(accumulator, At(snap, i), i),
                 Append(calls, [previousValue |-> accumulator,
                                currentValue |-> At(snap, i),
                                currentIndex |-> i]))

\* with initialValue omitted the first (reduce) or last (reduceRight) element
\* seeds the accumulator and is not passed to the callback; the empty array
\* then throws a TypeError
PlainReduce(snap, method, initialValue) ==
  LET first == IF method = "reduce" THEN 0 ELSE Len(snap) - 1
      step == IF method = "reduce" THEN 1 ELSE -1
  IN IF initialValue # <<>> THEN PlainFold(snap, first, step, initialValue[1], <<>>)
     ELSE IF snap = <<>> THEN [status |-> "TypeError", value |-> Undefined, calls |-> <<>>]
     ELSE PlainFold(snap, first + step, step,
                    [tag |-> "element", obj |-> At(snap, first)], <<>>)

\* C18: reduce and reduceRight return the value, and call the callback with
\* the (accumulator, element, index) triples, of the standard reduce and
\* reduceRight on the sorted snapshot, with an initial value and without one.
C18_ReduceRefinement ==
  ret.op \in {"reduce", "reduceRight"} =>
    \A plain \in {PlainReduce(unwrap(array), ret.op, ret.initialValue)} :
      /\ Ordered(array)
      /\ ret.status = plain.status
      /\ ret.value = plain.value
      /\ ret.calls = plain.calls

\* C18 for the calls that supply an initial value
C18_ReduceWithInitialValue ==
  (ret.op \in {"reduce", "reduceRight"} /\ ret.initialValue # <<>>)
    => C18_ReduceRefinement

\* C19: the README's collection has the snapshot [1,1], [1,2], [2,1], [2,2],
\* [2,3], X, X; findNth([1,1], 1, false) = {obj: [1,2], index: 1};
\* findNth(X, -1, true) = {obj: X, index: 5}; findNth(X, -2, true) = undefined;
\* findAll([4,1], false) = []; findNearest([0,0]) = {lt: none, gt: {obj:
\* [1,1], index: 0}}.
C19_ReadmeExample ==
  /\ ret.op = "toArray" => ret.value = ReadmeArray
  /\ (ret.op = "findNth" /\ ret.obj = 111 /\ ~ret.exact
         /\ ret.n = <<[sign |-> 1, abs |-> 1]>>)
       => ret.status = "ok" /\ ret.value = <<[obj |-> 12, index |-> 1]>>
  /\ (ret.op = "findNth" /\ ret.obj = 31 /\ ret.exact
         /\ ret.n = <<[sign |-> -1, abs |-> 1]>>)
       => ret.status = "ok" /\ ret.value = <<[obj |-> 31, index |-> 5]>>
  /\ (ret.op = "findNth" /\ ret.obj = 31 /\ ret.exact
         /\ ret.n = <<[sign |-> -1, abs |-> 2]>>)
       => ret.status = "ok" /\ ret.value = <<>>
  /\ (ret.op = "findAll" /\ ret.obj = 141 /\ ~ret.exact)
       => ret.status = "ok" /\ ret.value = <<>>
  /\ (ret.op = "findNearest" /\ ret.obj = 100)
       => /\ ret.status = "ok"
          /\ ret.eq = <<>>
          /\ ret.lt = <<>>
          /\ ret.gt = <<[obj |-> 11, index |-> 0]>>

\* C19 without the call findNth(X, -2, true)
C19_ReadmeExampleOtherCalls ==
  ~(ret.op = "findNth" /\ ret.obj = 31 /\ ret.exact
      /\ ret.n = <<[sign |-> -1, abs |-> 2]>>)
    => C19_ReadmeExample

\* the result a lookup gives when it finds nothing
NotFound(r) ==
  CASE r.op = "includes" -> r.value = <<FALSE>>
    [] r.op = "indexOf" -> r.value = <<-1>>
    [] r.op = "findNth" -> r.value = <<>>
    [] r.op = "findAll" -> r.value = <<>>
    [] r.op = "findNearest" -> r.eq = <<>> /\ r.lt = <<>> /\ r.gt = <<>>

NaNLookups == {"includes", "indexOf", "findNth", "findAll", "findNearest"}

\* C21: on a non-empty collection a lookup whose key makes the Payload
\* Comparator return NaN raises an error at the first comparison of the
\* binary search; on an empty collection every lookup reports not-found
\* without calling the comparator.
C21_ComparatorNaN ==
  ret.op \in NaNLookups =>
    /\ (array # <<>> /\ ret.obj = NaNKey) =>
          ret.status = "Error" /\ ret.compares = 1
    /\ array = <<>> =>
          ret.status = "ok" /\ ret.compares = 0 /\ NotFound(ret)

\* the lookups that go through searchAll: findAll, and the exact ones
ThroughSearchAll(r) ==
  \/ r.op = "findAll"
  \/ r.op \in {"includes", "indexOf", "findNth"} /\ r.exact

\* C21 without the lookups on an empty collection that go through searchAll
C21_ComparatorNaNOtherCalls ==
  ~(array = <<>> /\ ret.op \in NaNLookups /\ ThroughSearchAll(ret))
    => C21_ComparatorNaN

\* a is b with some of its entries left out
RECURSIVE IsSubSeq(_, _)
IsSubSeq(a, b) ==
  \/ a = <<>>
  \/ /\ b # <<>>
     /\ IF Head(a) = Head(b) THEN IsSubSeq(Tail(a), Tail(b)) ELSE IsSubSeq(a, Tail(b))

\* the calls that observe the order or remove by position (a get that throws
\* its RangeError has looked at nothing)
OrderObserving(r) ==
  /\ r.op \in {"get", "toArray", "findNth", "findAll", "findNearest",
               "removeAll", "pop", "shift", "slice", "splice"}
  /\ ~(r.op = "get" /\ r.status = "RangeError")

\* C22: add appends the new nodes behind the stored ones, in whatever order
\* those stand, and marks the collection dirty; an order-observing or
\* removing call on a dirty collection works on the storage sorted once and
\* leaves it marked sorted; such a call on a collection that is marked
\* sorted (no add since the last one) sorts nothing: the nodes it leaves
\* stand in the order they stood in, also when their keys have been changed
\* since and the storage is out of order.
C22_LazySort ==
  [][/\ ret'.op = "add" =>
          /\ ~sorted'
          /\ unwrap(SubSeq(array', 1, Len(array))) = unwrap(array)
          /\ Ranks(SubSeq(array', 1, Len(array))) = Ranks(array)
     /\ OrderObserving(ret') =>
          /\ array # <<>> => sorted'
          /\ IF sorted
             THEN IsSubSeq(Nodes(array'), Nodes(array))
             ELSE IsSubSeq(Nodes(array'), Nodes(arraySort(array)))]_vars

\* a snapshot taken from a collection marked sorted whose elements are out of
\* order, a key having been changed after the last sort
C22_Witness ==
  /\ ret.op = "toArray"
  /\ Len(ret.value) = 3
  /\ mutated # {}
  /\ ~IsNonDecreasing(ret.value)

\* C23: a toString called while a sort pass is in progress starts no second
\* pass: it leaves the storage and the sorting flag as they are, clears the
\* dirty flag and returns, rendering the collection itself as the circular
\* marker; a pass starts only when none is in progress, and ends with the
\* storage sorted, the flag down and the outer toString returning.
C23_ReentrancyGuard ==
  [][/\ (ret'.op = "toString" /\ ret'.nested) =>
          /\ sorting /\ sorting'
          /\ array' = array
          /\ sorted'
          /\ ret'.done
          /\ \A i \in DOMAIN array :
                (ret'.value[i].tag = "[Circular]") = (array[i].obj = Self)
     /\ (sorting' /\ ~sorting) => (~sorted /\ array' = array)
     /\ (sorting /\ ~sorting') =>
          /\ Nodes(array') = Nodes(arraySort(array))
          /\ sorted'
          /\ ret' = [op |-> "toString", nested |-> FALSE, done |-> TRUE,
                     value |-> Circular(unwrap(array'))]]_vars

\* a nested toString has returned inside the pass over three elements, one
\* of them the collection itself
C23_Witness ==
  /\ ret.op = "toString"
  /\ ret.nested
  /\ sorting
  /\ sorted
  /\ Len(array) = 3
  /\ \E i \in DOMAIN array : ret.value[i].tag = "[Circular]"

\* C24: in every state a node inserted after another has the greater sequence
\* number (each insertion is issued a number above all the current ones,
\* renumbered or not), so the sequence numbers of the stored nodes are
\* pairwise distinct; all are below the insertion counter; and the Augmented
\* Comparator returns 0 for no two distinct nodes.
C24_InsertionSequencer ==
  /\ \A i, j \in DOMAIN array :
        array[i].ins < array[j].ins => array[i].index < array[j].index
  /\ \A i, j \in DOMAIN array : i # j => array[i].index # array[j].index
  /\ \A i \in DOMAIN array : array[i].index < insertionCounter
  /\ \A i, j \in DOMAIN array : i # j => compareFn(array[i], array[j]) # 0

\* an add that renumbered has left three nodes, two of them holding the same
\* object
C24_Witness ==
  /\ ret.op = "add"
  /\ ret.reduced
  /\ Len(array) = 3
  /\ \E i, j \in DOMAIN array : i # j /\ array[i].obj = array[j].obj

\* the number of nodes of arr with a sequence number below that of node
Below(arr, node) == Cardinality({j \in DOMAIN arr : arr[j].index < node.index})

\* C25: an add during which the renumbering pass runs leaves every node that
\* was stored at its position with its payload and with the sequence number
\* MIN + (number of stored nodes that had a smaller one), the nodes it adds
\* behind them with the next numbers, and the counter one above the last.
C25_DenseRenumbering ==
  [][(ret'.op = "add" /\ ret'.reduced) =>
       /\ Len(array') > Len(array)
       /\ \A i \in DOMAIN array :
             /\ array'[i].obj = array[i].obj
             /\ array'[i].index = MIN_SAFE_INTEGER + Below(array, array[i])
       /\ \A i \in (Len(array) + 1)..Len(array') :
             array'[i].index = MIN_SAFE_INTEGER + i - 1
       /\ insertionCounter' = MIN_SAFE_INTEGER + Len(array')]_vars

\* a renumbering add on storage that had been sorted into another order
\* than that of insertion
C25_Witness ==
  /\ ret.op = "add"
  /\ ret.reduced
  /\ Len(array) = 3
  /\ \E i, j \in DOMAIN array : i < j /\ array[i].index > array[j].index

\* C26: as long as fewer than CounterWidth elements are stored, the insertion
\* counter is at most MAX_SAFE_INTEGER after every operation and every
\* stored sequence number lies in MIN_SAFE_INTEGER..(MAX_SAFE_INTEGER - 2).
C26_CounterBounded ==
  Len(array) < CounterWidth =>
    /\ insertionCounter <= MAX_SAFE_INTEGER
    /\ \A i \in DOMAIN array :
          /\ MIN_SAFE_INTEGER <= array[i].index
          /\ array[i].index <= MAX_SAFE_INTEGER - 2

\* a renumbering add has brought the collection to CounterWidth - 1
\* elements, the last with the sequence number MAX_SAFE_INTEGER - 2
C26_Witness ==
  /\ ret.op = "add"
  /\ ret.reduced
  /\ Len(array) = CounterWidth - 1
  /\ Last(array).index = MAX_SAFE_INTEGER - 2

\* C27: includes, indexOf and lastIndexOf with a toIndex in 0..length return
\* their normal result (a boolean, an index or -1); no read of a storage
\* position outside 0..length-1 makes them throw.
C27_AcceptedBoundsSafe ==
  (/\ ret.op \in Lookups
   /\ ret.fromIndex = <<>>
   /\ ret.toIndex # <<>>
   /\ ret.toIndex[1].kind = "integer"
   /\ ret.toIndex[1].n \in 0..Len(array)) =>
     /\ ret.status = "ok"
     /\ IF ret.op = "includes" THEN ret.value[1] \in BOOLEAN
        ELSE ret.value[1] \in -1..(Len(array) - 1)

\* C27 for a toIndex below the length, and on the empty collection
C27_BoundsBelowLengthSafe ==
  (ret.op \in Lookups /\ ret.toIndex # <<>>
      /\ (array = <<>> \/ ret.toIndex[1].n < Len(array)))
    => C27_AcceptedBoundsSafe

\* the number of stored elements less than the key obj
Less(arr, obj) ==
  Cardinality({i \in DOMAIN arr : originalCompareFn(arr[i].obj, obj) < 0})

Comparable(arr) == \A i \in DOMAIN arr : arr[i].obj # Null

\* C29: between calls the sorting flag is false, also after a call whose
\* sort pass the comparator aborted by throwing, and a snapshot is returned
\* from sorted storage only.
C29_SortingFlagReset ==
  /\ ~sorting
  /\ (ret.op = "toArray" /\ ret.status = "ok" /\ Comparable(array)) =>
        (ret.value = unwrap(array) /\ Ordered(array))

\* the second half of C29 alone: a snapshot is returned from sorted storage
C29_NeverSortedWithoutSorting ==
  (ret.op = "toArray" /\ ret.status = "ok" /\ Comparable(array)) =>
    (ret.value = unwrap(array) /\ Ordered(array))

\* as long as the flag is down (no pass has been aborted) snapshots are
\* sorted
C29_SortedUntilAbort == ~sorting => C29_NeverSortedWithoutSorting

\* C30: a remove/removeAll call that raises the out-of-bounds error leaves
\* the collection unchanged: the elements stored after the call are the
\* elements stored before it, in sorted order, none of them removed
C30_FailedRemoveUnchanged ==
  [][(ret'.op = "removeAll" /\ ret'.status = "RangeError")
       => Nodes(array') = Nodes(arraySort(array))]_vars

\* a failed call of a single index (remove(index)) removes nothing, and a
\* failed call of several removes at most the elements before the failure
C30_FailedRemoveOfOneUnchanged ==
  [][(ret'.op = "removeAll" /\ ret'.status = "RangeError")
       => /\ IsSubSeq(Nodes(array'), Nodes(arraySort(array)))
          /\ Len(array) - Len(array') < Len(ret'.indices)
          /\ Len(ret'.indices) = 1 => Nodes(array') = Nodes(arraySort(array))]_vars

\* C16: the values an iterator yields are in order, each not smaller than the
\* one yielded before it, whatever add calls are made between its creation
\* and its steps.
C16_IterationInOrder ==
  iterator # <<>> => IsNonDecreasing(iterator[1].yielded)

\* C13: sort() performs a sort pass even when the dirty flag is clear: after
\* payload keys were changed externally a read returns the stored (stale)
\* order, and sort() leaves the storage ordered by the Augmented Comparator
\* on the current payload values, ties in insertion order.
C13_ForceSort ==
  [][/\ (ret'.op = "toArray" /\ sorted) =>
           /\ array' = array
           /\ ret'.value = unwrap(array)
     /\ (ret'.op = "sort" /\ ~ret'.compareFn) =>
           /\ Nodes(array') = Nodes(arraySort(array))
           /\ IsSortedAugmented(array')
           /\ TiesInInsertionOrder(array')
           /\ sorted']_vars

\* after sort(), object 1, overwritten to a greater a[0], stands behind
\* object 2, which was created equal to it and inserted after it
C13_Witness ==
  /\ ret.op = "sort"
  /\ mutated = {1}
  /\ Len(array) = 3
  /\ \E i, j \in DOMAIN array :
       i < j /\ array[i].obj = 2 /\ array[j].obj = 1 /\ array[j].ins < array[i].ins

Next ==
  \/ Add
  \/ AddAll
  \/ ToArray
  \/ Get
  \/ Sort
  \/ Remove
  \/ Pop
  \/ Shift
  \/ Splice

Spec == Init /\ [][Next]_vars

NextRemove ==
  \/ Add
  \/ RemoveAll

SpecRemove == Init /\ [][NextRemove]_vars

NextBounds ==
  \/ Add
  \/ Get
  \/ RemoveAll

SpecBounds == Init /\ [][NextBounds]_vars

NextMutate ==
  \/ Add
  \/ ToArray
  \/ Sort
  \/ Mutate

SpecMutate == Init /\ [][NextMutate]_vars

NextArray ==
  \/ Add
  \/ Pop
  \/ Shift
  \/ Slice
  \/ SpliceAround

SpecArray == Init /\ [][NextArray]_vars

NextIterate ==
  \/ Add
  \/ SymbolIterator
  \/ IteratorNext

SpecIterate == Init /\ [][NextIterate]_vars

NextIndexOf ==
  \/ Add
  \/ Pop
  \/ IndexOf
  \/ LastIndexOf

SpecIndexOf == Init /\ [][NextIndexOf]_vars

NextLookup ==
  \/ Add
  \/ Includes
  \/ IndexOfBounds
  \/ LastIndexOfBounds

SpecLookup == Init /\ [][NextLookup]_vars

NextReduce ==
  \/ Add
  \/ Pop
  \/ Reduce
  \/ ReduceRight

SpecReduce == Init /\ [][NextReduce]_vars

NextNaN ==
  \/ Add
  \/ FindNthNaN
  \/ FindAllNaN
  \/ FindNearestNaN
  \/ IncludesNaN
  \/ IndexOfNaN

SpecNaN == Init /\ [][NextNaN]_vars

NextLazy ==
  \/ Add
  \/ MutateFirst
  \/ ToArray
  \/ Get
  \/ Remove
  \/ Pop
  \/ Shift
  \/ FindNearest

SpecLazy == Init /\ [][NextLazy]_vars

NextReentrant ==
  \/ ~sorting /\ Add
  \/ ~sorting /\ AddSelf
  \/ ToStringBegin
  \/ ToStringNested
  \/ ToStringEnd

SpecReentrant == Init /\ [][NextReentrant]_vars

NextSequencer ==
  \/ Add
  \/ AddAll
  \/ Pop
  \/ Shift

SpecSequencer == Init /\ [][NextSequencer]_vars

NextCounter ==
  \/ AddBelowWidth
  \/ Pop
  \/ Shift

SpecCounter == Init /\ [][NextCounter]_vars

NextUpTo ==
  \/ Add
  \/ IncludesUpTo
  \/ IndexOfUpTo
  \/ LastIndexOfUpTo

SpecUpTo == Init /\ [][NextUpTo]_vars

NextThrow ==
  \/ Add
  \/ AddNull
  \/ ToArrayOrThrow
  \/ RemoveOrThrow

SpecThrow == Init /\ [][NextThrow]_vars

NextReadme ==
  \/ ToArray
  \/ FindNthReadme
  \/ FindAllReadme
  \/ FindNearestReadme

SpecReadme == InitReadme /\ [][NextReadme]_vars

NextProxy ==
  \/ Add
  \/ ToArray
  \/ Unsupported
  \/ SortCompareFn
  \/ SpliceItems
  \/ SetIndex
  \/ SetLength

SpecProxy == Init /\ [][NextProxy]_vars

NextFindNth ==
  \/ Add
  \/ Pop
  \/ FindNth

SpecFindNth == Init /\ [][NextFindNth]_vars

NextFindNthExact ==
  \/ Add
  \/ Shift
  \/ FindNthExact

SpecFindNthExact == Init /\ [][NextFindNthExact]_vars

NextFind ==
  \/ Add
  \/ Pop
  \/ Shift
  \/ FindAll
  \/ FindNearest

SpecFind == Init /\ [][NextFind]_vars

====
